---- MODULE Spec2Model ----
(***************************************************************************)
(* Model of qr_code/qr_code.py (django-qr-code): the MeCARD / WIFI payload *)
(* builders, the resolution of the rendering parameters, the protection    *)
(* policy and the signed URL-protection token.                             *)
(*                                                                         *)
(* Python values are records [t, i, s]: t is the type tag, i the integer   *)
(* payload, s the text payload.  A text is a sequence of characters, each  *)
(* character a one-character string; "^2" stands for U+00B2 SUPERSCRIPT    *)
(* TWO, a character for which str.isdigit() is true and int() raises.      *)
(***************************************************************************)
EXTENDS Integers, Sequences, FiniteSets

VARIABLES
    settings,        \* django.conf.settings, as far as this module reads it
    RANDOM_TOKEN,    \* the module-level installation salt (line 74)
    token_at_start,  \* history: the value RANDOM_TOKEN was given at import
    first_mint,      \* history: the first signed token handed out, with its parameters
    pc,              \* "idle": no call in progress; "returned": a call has returned
    call,            \* the operation called last and its arguments
    result           \* what that call returned

vars == <<settings, RANDOM_TOKEN, token_at_start, first_mint, pc, call, result>>

(***************************************************************************)
(* Python values                                                           *)
(***************************************************************************)
PyNone == [t |-> "None", i |-> 0, s |-> <<>>]
PyStr(s) == [t |-> "str", i |-> 0, s |-> s]
PyInt(n) == [t |-> "int", i |-> n, s |-> <<>>]
PyBool(b) == [t |-> "bool", i |-> IF b THEN 1 ELSE 0, s |-> <<>>]
PyDate(y, m, d) == [t |-> "date", i |-> (y * 10000) + (m * 100) + d, s |-> <<>>]
\* A key the dictionary does not hold.
Absent == [t |-> "absent", i |-> 0, s |-> <<>>]

DigitChars == <<"0", "1", "2", "3", "4", "5", "6", "7", "8", "9">>

RECURSIVE NatToText(_)
NatToText(n) ==
    IF n < 10 THEN <<DigitChars[n + 1]>>
    ELSE NatToText(n \div 10) \o <<DigitChars[(n % 10) + 1]>>

IntToText(n) == IF n < 0 THEN <<"-">> \o NatToText(0 - n) ELSE NatToText(n)

\* Python's str() of a value.
str(v) ==
    CASE v.t = "str" -> v.s
      [] v.t = "int" -> IntToText(v.i)
      [] v.t = "bool" -> IF v.i = 1 THEN <<"T", "r", "u", "e">> ELSE <<"F", "a", "l", "s", "e">>
      [] OTHER -> <<"N", "o", "n", "e">>

\* Python's truth value of a value.
truthy(v) ==
    CASE v.t = "str" -> v.s # <<>>
      [] v.t = "int" -> v.i # 0
      [] v.t = "bool" -> v.i = 1
      [] v.t = "date" -> TRUE
      [] OTHER -> FALSE

UpperChars == <<"A", "B", "C", "D", "E", "F", "G", "H", "I", "J", "K", "L", "M",
                "N", "O", "P", "Q", "R", "S", "T", "U", "V", "W", "X", "Y", "Z">>
LowerChars == <<"a", "b", "c", "d", "e", "f", "g", "h", "i", "j", "k", "l", "m",
                "n", "o", "p", "q", "r", "s", "t", "u", "v", "w", "x", "y", "z">>

lower_char(c) ==
    IF \E k \in 1..26 : UpperChars[k] = c
    THEN LowerChars[CHOOSE k \in 1..26 : UpperChars[k] = c]
    ELSE c

\* str.lower()
lower(s) == [k \in 1..Len(s) |-> lower_char(s[k])]

\* All texts over alphabet A of length at most n.
TextsUpTo(A, n) == UNION {[1..k -> A] : k \in 0..n}

RECURSIVE Concat(_)
Concat(parts) == IF parts = <<>> THEN <<>> ELSE Head(parts) \o Concat(Tail(parts))

StartsWith(s, p) == Len(s) >= Len(p) /\ SubSeq(s, 1, Len(p)) = p
EndsWith(s, p) == Len(s) >= Len(p) /\ SubSeq(s, Len(s) - Len(p) + 1, Len(s)) = p

(***************************************************************************)
(* _escape_mecard_special_chars                                            *)
(***************************************************************************)
special_chars_backslash_last == <<"\"", ";", ",", "\\">>

special_chars == <<"\\", "\"", ";", ",">>

\* str.replace(old, new) for a one-character old.
RECURSIVE replace(_, _, _)
replace(s, old, new) ==
    IF s = <<>> THEN <<>>
    ELSE (IF Head(s) = old THEN new ELSE <<Head(s)>>) \o replace(Tail(s), old, new)

\* The for loop over special_chars: one replace per special character, in list order.
RECURSIVE escape_loop(_, _)
escape_loop(s, scs) ==
    IF scs = <<>> THEN s
    ELSE \* string_to_escape = string_to_escape.replace(...): the value is assigned
         \* once, then the loop goes on with it.
         CHOOSE r \in {escape_loop(replaced, Tail(scs)) :
                          replaced \in {replace(s, Head(scs), <<"\\", Head(scs)>>)}} : TRUE

_escape_mecard_special_chars(string_to_escape) ==
    IF ~truthy(string_to_escape) THEN string_to_escape
    ELSE PyStr(escape_loop(string_to_escape.s, special_chars))

\* dict_to_escape maps every key to a value or to Absent.
_escape_mecard_special_chars_in_dict(dict_to_escape, keys) ==
    [k \in DOMAIN dict_to_escape |->
        IF k \in keys /\ dict_to_escape[k] # Absent
        THEN _escape_mecard_special_chars(dict_to_escape[k])
        ELSE dict_to_escape[k]]

(***************************************************************************)
(* get_url_protection_options                                              *)
(***************************************************************************)
DefaultTokenLength == 20

\* settings without a QR_CODE_URL_PROTECTION attribute.
SettingsUnset ==
    [kind |-> "unset", AER |-> "absent", FOR_REG |-> "absent",
     TOKEN_LENGTH |-> 0, SIGNING_KEY |-> "absent"]

\* user.is_authenticated: a method before Django 1.10 (it is called), an attribute
\* since (it is read).
is_authenticated(user) ==
    IF user.style = "method" THEN user.kind = "authenticated"
    ELSE user.kind = "authenticated"

\* The configured callable policies, applied to a user.
apply_policy(f, user) ==
    CASE f = "fn_always" -> TRUE
      [] f = "fn_never" -> FALSE
      [] OTHER -> user.kind = "authenticated"

PyBoolName(b) == IF b THEN "True" ELSE "False"

get_url_protection_options(user) ==
    LET defaults == [TOKEN_LENGTH |-> DefaultTokenLength,
                     SIGNING_KEY |-> "SECRET_KEY",
                     SIGNING_SALT |-> "qr_code_url_protection_salt",
                     ALLOWS_EXTERNAL_REQUESTS_FOR_REGISTERED_USER |-> "False",
                     ALLOWS_EXTERNAL_REQUESTS |-> "False"]
        \* options.update(settings.QR_CODE_URL_PROTECTION)
        updated == [TOKEN_LENGTH |->
                        IF settings.TOKEN_LENGTH # 0 THEN settings.TOKEN_LENGTH
                        ELSE defaults.TOKEN_LENGTH,
                    SIGNING_KEY |->
                        IF settings.SIGNING_KEY # "absent" THEN settings.SIGNING_KEY
                        ELSE defaults.SIGNING_KEY,
                    SIGNING_SALT |-> defaults.SIGNING_SALT,
                    ALLOWS_EXTERNAL_REQUESTS_FOR_REGISTERED_USER |->
                        IF settings.FOR_REG # "absent" THEN settings.FOR_REG
                        ELSE defaults.ALLOWS_EXTERNAL_REQUESTS_FOR_REGISTERED_USER,
                    ALLOWS_EXTERNAL_REQUESTS |->
                        IF settings.AER # "absent" THEN settings.AER
                        ELSE defaults.ALLOWS_EXTERNAL_REQUESTS]
        for_reg == updated.ALLOWS_EXTERNAL_REQUESTS_FOR_REGISTERED_USER
        is_callable == for_reg \in {"fn_always", "fn_never", "fn_auth"}
        user_truthy == user.kind # "None"
    IN  IF settings.kind # "dict" THEN defaults
        ELSE [updated EXCEPT !.ALLOWS_EXTERNAL_REQUESTS =
                IF is_callable
                THEN (IF user_truthy THEN PyBoolName(apply_policy(for_reg, user)) ELSE "None")
                ELSE IF for_reg = "True" /\ user_truthy
                THEN PyBoolName(is_authenticated(user))
                ELSE "False"]

NoUser == [kind |-> "None", style |-> "attr"]

Users ==
    {NoUser}
    \cup [kind : {"anonymous", "authenticated"}, style : {"attr", "method"}]

\* get_random_string(length): one of the strings of that length (the model draws
\* from those that repeat one character of SaltChars).
SaltChars == {"x", "y"}
get_random_string(length) == {[k \in 1..length |-> c] : c \in SaltChars}

_make_random_token == get_random_string(get_url_protection_options(NoUser).TOKEN_LENGTH)

(***************************************************************************)
(* Import of the module, and the end of a call                             *)
(***************************************************************************)
NoCall == [op |-> "none"]

ProcessStart(SettingsSet) ==
    /\ settings \in SettingsSet
    /\ RANDOM_TOKEN \in _make_random_token
    /\ token_at_start = RANDOM_TOKEN
    /\ first_mint = [minted |-> FALSE]
    /\ pc = "idle"
    /\ call = NoCall
    /\ result = PyNone

Return ==
    /\ pc = "returned"
    /\ pc' = "idle"
    /\ call' = NoCall
    /\ result' = PyNone
    /\ UNCHANGED <<settings, RANDOM_TOKEN, token_at_start, first_mint>>

Returned(op) == pc = "returned" /\ call.op = op

(***************************************************************************)
(* Specification of the escaping utility                                   *)
(***************************************************************************)
MaxLen == 3
EscAlphabet == {"\\", "\"", ";", ",", "a"}
EscInputs == {PyNone} \cup {PyStr(s) : s \in TextsUpTo(EscAlphabet, MaxLen)}

EscapeMecardSpecialChars ==
    /\ pc = "idle"
    /\ \E v \in EscInputs :
        /\ call' = [op |-> "_escape_mecard_special_chars", arg |-> v]
        /\ result' = _escape_mecard_special_chars(v)
    /\ pc' = "returned"
    /\ UNCHANGED <<settings, RANDOM_TOKEN, token_at_start, first_mint>>

InitEscape == ProcessStart({SettingsUnset})
NextEscape == EscapeMecardSpecialChars \/ Return
SpecEscape == InitEscape /\ [][NextEscape]_vars

Reserved == {"\\", "\"", ";", ","}

RECURSIVE EachReservedPrefixed(_)
EachReservedPrefixed(s) ==
    IF s = <<>> THEN <<>>
    ELSE (IF Head(s) \in Reserved THEN <<"\\", Head(s)>> ELSE <<Head(s)>>)
         \o EachReservedPrefixed(Tail(s))

\* C3: the escaping utility returns its input with every occurrence of a reserved
\* character (backslash, double quote, semicolon, comma) replaced by a backslash
\* followed by that character, every other character unchanged and in order (a
\* backslash introduced as an escape is not escaped again); an empty or absent
\* input is returned unchanged.
C3_EscapeEachReservedOnce ==
    Returned("_escape_mecard_special_chars") =>
        /\ call.arg = PyNone => result = PyNone
        /\ call.arg # PyNone => result = PyStr(EachReservedPrefixed(call.arg.s))
        /\ call.arg = PyStr(<<>>) => result = PyStr(<<>>)

C3_Witness ==
    /\ Returned("_escape_mecard_special_chars")
    /\ call.arg = PyStr(<<"\\", ",", "a">>)
    /\ result = PyStr(<<"\\", "\\", "\\", ",", "a">>)

(***************************************************************************)
(* Specification of the protection policy                                  *)
(***************************************************************************)
MaxTokenLength == 2

PolicySettings ==
    {SettingsUnset, [SettingsUnset EXCEPT !.kind = "notdict"]}
    \cup [kind : {"dict"},
          AER : {"absent", "True", "False"},
          FOR_REG : {"absent", "False", "True", "fn_always", "fn_never", "fn_auth"},
          TOKEN_LENGTH : 0..MaxTokenLength,
          SIGNING_KEY : {"absent", "site_key"}]

GetUrlProtectionOptions ==
    /\ pc = "idle"
    /\ \E user \in Users :
        /\ call' = [op |-> "get_url_protection_options", user |-> user]
        /\ result' = get_url_protection_options(user)
    /\ pc' = "returned"
    /\ UNCHANGED <<settings, RANDOM_TOKEN, token_at_start, first_mint>>

InitOptions == ProcessStart(PolicySettings)
NextOptions == GetUrlProtectionOptions \/ Return
SpecOptions == InitOptions /\ [][NextOptions]_vars

\* C2: with no QR_CODE_URL_PROTECTION setting, get_url_protection_options(user)
\* returns ALLOWS_EXTERNAL_REQUESTS = False for every caller; and when the setting
\* configures ALLOWS_EXTERNAL_REQUESTS = True, the returned
\* ALLOWS_EXTERNAL_REQUESTS is True for every caller.
C2_PolicyAsConfigured ==
    Returned("get_url_protection_options") =>
        /\ settings.kind = "unset" => result.ALLOWS_EXTERNAL_REQUESTS = "False"
        /\ (settings.kind = "dict" /\ settings.AER = "True") =>
                result.ALLOWS_EXTERNAL_REQUESTS = "True"

(***************************************************************************)
(* make_wifi_text                                                          *)
(***************************************************************************)
\* '%s' % value
percent_s(value) == str(value)

hidden_text_not_lowered(hidden) == str(hidden)

\* str(wifi_dict['hidden']).lower()
hidden_text(hidden) == lower(str(hidden))

\* wifi_config; d is wifi_dict as reassigned by the first statement (the escaped
\* copy), which maps each of ssid, authentication, password, hidden to a value or
\* to Absent.
wifi_fields_text(d) ==
    LET c0 == <<"W", "I", "F", "I", ":">>
        c1 == IF d["ssid"] # Absent
              THEN c0 \o <<"S", ":">> \o percent_s(d["ssid"]) \o <<";">> ELSE c0
        c2 == IF d["authentication"] # Absent
              THEN c1 \o <<"T", ":">> \o percent_s(d["authentication"]) \o <<";">> ELSE c1
        c3 == IF d["password"] # Absent
              THEN c2 \o <<"P", ":">> \o percent_s(d["password"]) \o <<";">> ELSE c2
        c4 == IF d["hidden"] # Absent
              THEN c3 \o <<"H", ":">> \o hidden_text(d["hidden"]) \o <<";">> ELSE c3
    IN  c4

make_wifi_text(wifi_dict) ==
    CHOOSE r \in {PyStr(wifi_fields_text(d)) :
                    d \in {_escape_mecard_special_chars_in_dict(wifi_dict,
                                                                {"ssid", "password"})}} : TRUE

(***************************************************************************)
(* Specification of the Wi-Fi builder                                      *)
(***************************************************************************)
MaxWifiLen == 2
WifiAlphabet == {"a", ";", "\\"}
WifiTexts == {PyStr(s) : s \in TextsUpTo(WifiAlphabet, MaxWifiLen)}
WifiRecords ==
    [ssid : {Absent} \cup WifiTexts,
     authentication : {Absent, PyStr(<<"W", "E", "P">>), PyStr(<<"W", "P", "A">>),
                       PyStr(<<"n", "o", "p", "a", "s", "s">>)},
     password : {Absent} \cup WifiTexts,
     hidden : {Absent, PyBool(TRUE), PyBool(FALSE)}]

MakeWifiText(Records) ==
    /\ pc = "idle"
    /\ \E wifi_dict \in Records :
        /\ call' = [op |-> "make_wifi_text", arg |-> wifi_dict]
        /\ result' = make_wifi_text(wifi_dict)
    /\ pc' = "returned"
    /\ UNCHANGED <<settings, RANDOM_TOKEN, token_at_start, first_mint>>

InitWifi == ProcessStart({SettingsUnset})
NextWifi == MakeWifiText(WifiRecords) \/ Return
SpecWifi == InitWifi /\ [][NextWifi]_vars

dict_get(d, key) == IF d[key] = Absent THEN PyNone ELSE d[key]

\* birthday.strftime('%Y%m%d'), for a year of four digits.
strftime_Ymd(date) ==
    LET y == date.i \div 10000
        m == (date.i \div 100) % 100
        d == date.i % 100
        two(n) == <<DigitChars[(n \div 10) + 1], DigitChars[(n % 10) + 1]>>
    IN  NatToText(y) \o two(m) \o two(d)

join_name_first_last(first, last) ==
    IF truthy(first) /\ truthy(last)
    THEN PyStr(percent_s(first) \o <<",">> \o percent_s(last))
    ELSE IF truthy(first) THEN first ELSE last

\* name = '%s,%s' % (last_name, first_name) if both, else whichever is truthy.
join_name(first, last) ==
    IF truthy(first) /\ truthy(last)
    THEN PyStr(percent_s(last) \o <<",">> \o percent_s(first))
    ELSE IF truthy(first) THEN first ELSE last

EscapedContactKeys ==
    {"first_name", "last_name", "first_name_reading", "last_name_reading",
     "tel", "tel-av", "email", "memo", "nickname", "org"}

\* contact_text before the closing ';' is appended; d is contact_dict as
\* reassigned by the first statement (the escaped copy).
contact_fields_text(d) ==
    LET c0 == <<"M", "E", "C", "A", "R", "D", ":">>
        name == join_name(dict_get(d, "first_name"), dict_get(d, "last_name"))
        c1 == IF truthy(name) THEN c0 \o <<"N", ":">> \o percent_s(name) \o <<";">> ELSE c0
        name_reading == join_name(dict_get(d, "first_name_reading"),
                                  dict_get(d, "last_name_reading"))
        c2 == IF truthy(name_reading)
              THEN c1 \o <<"S", "O", "U", "N", "D", ":">> \o percent_s(name_reading) \o <<";">>
              ELSE c1
        c3 == IF d["tel"] # Absent
              THEN c2 \o <<"T", "E", "L", ":">> \o percent_s(d["tel"]) \o <<";">> ELSE c2
        c4 == IF d["tel-av"] # Absent
              THEN c3 \o <<"T", "E", "L", "-", "A", "V", ":">> \o percent_s(d["tel-av"]) \o <<";">>
              ELSE c3
        c5 == IF d["email"] # Absent
              THEN c4 \o <<"E", "M", "A", "I", "L", ":">> \o percent_s(d["email"]) \o <<";">>
              ELSE c4
        c6 == IF d["memo"] # Absent
              THEN c5 \o <<"N", "O", "T", "E", ":">> \o percent_s(d["memo"]) \o <<";">> ELSE c5
        c7 == IF d["birthday"] # Absent
              THEN c6 \o <<"B", "D", "A", "Y", ":">> \o strftime_Ymd(d["birthday"]) \o <<";">>
              ELSE c6
        c8 == IF d["address"] # Absent
              THEN c7 \o <<"A", "D", "R", ":">> \o percent_s(d["address"]) \o <<";">> ELSE c7
        c9 == IF d["url"] # Absent
              THEN c8 \o <<"U", "R", "L", ":">> \o percent_s(d["url"]) \o <<";">> ELSE c8
        c10 == IF d["nickname"] # Absent
               THEN c9 \o <<"N", "I", "C", "K", "N", "A", "M", "E", ":">>
                       \o percent_s(d["nickname"]) \o <<";">>
               ELSE c9
        c11 == IF d["org"] # Absent
               THEN c10 \o <<"O", "R", "G", ":">> \o percent_s(d["org"]) \o <<";">> ELSE c10
    IN  c11

make_contact_text_unterminated(contact_dict) ==
    CHOOSE r \in {PyStr(contact_fields_text(d)) :
                    d \in {_escape_mecard_special_chars_in_dict(contact_dict,
                                                                EscapedContactKeys)}} : TRUE

\* contact_dict maps each of the thirteen keys to a value or to Absent.
\* The escaped copy d is made once, then the text is built from it and closed.
make_contact_text(contact_dict) ==
    CHOOSE r \in {PyStr(contact_fields_text(d) \o <<";">>) :
                    d \in {_escape_mecard_special_chars_in_dict(contact_dict,
                                                                EscapedContactKeys)}} : TRUE

(***************************************************************************)
(* Specification of the MeCARD builder                                     *)
(***************************************************************************)
NameKeys == {"first_name", "last_name", "first_name_reading", "last_name_reading"}
FieldOrder == <<"tel", "tel-av", "email", "memo", "birthday", "address", "url",
                "nickname", "org">>
FieldKeys == {FieldOrder[k] : k \in 1..Len(FieldOrder)}
ContactKeys == NameKeys \cup FieldKeys

\* A letter of its own for every key, so that a value shows which field it is.
KeyLetter(k) ==
    CASE k = "first_name" -> "J" [] k = "last_name" -> "D"
      [] k = "first_name_reading" -> "j" [] k = "last_name_reading" -> "d"
      [] k = "tel" -> "1" [] k = "tel-av" -> "2" [] k = "email" -> "e"
      [] k = "memo" -> "m" [] k = "address" -> "a" [] k = "url" -> "u"
      [] k = "nickname" -> "n" [] OTHER -> "o"

NameValues(k) ==
    {Absent, PyStr(<<>>), PyStr(<<KeyLetter(k)>>), PyStr(<<KeyLetter(k), ",">>)}

Fills == {"empty", "plain", "special"}

FieldValue(k, fill) ==
    IF k = "birthday" THEN PyDate(2017, 8, 7)
    ELSE CASE fill = "empty" -> PyStr(<<>>)
           [] fill = "plain" -> PyStr(<<KeyLetter(k)>>)
           [] OTHER -> PyStr(<<KeyLetter(k), ";", "\\">>)

ContactRecord(names, present, fill) ==
    [k \in ContactKeys |->
        IF k \in NameKeys THEN names[k]
        ELSE IF k \in present THEN FieldValue(k, fill) ELSE Absent]

AllNames ==
    [first_name : NameValues("first_name"),
     last_name : NameValues("last_name"),
     first_name_reading : NameValues("first_name_reading"),
     last_name_reading : NameValues("last_name_reading")]

FewNames(n) ==
    \/ \A k \in NameKeys : n[k] = Absent
    \/ n = [k \in NameKeys |-> IF k = "first_name" THEN PyStr(<<"J">>) ELSE Absent]
    \/ \A k \in NameKeys : n[k] = PyStr(<<KeyLetter(k)>>)

\* The records the builder is called with: every combination of the four names
\* with no or all other fields (plainly filled), and every subset of the other
\* fields, with each fill, under a few combinations of names.
InContactRecords(names, present, fill) ==
    \/ FewNames(names)
    \/ present \in {{}, FieldKeys} /\ fill = "plain"

MakeContactText(Names, Presents, FillsUsed) ==
    /\ pc = "idle"
    /\ \E names \in Names, present \in Presents, fill \in FillsUsed :
        /\ InContactRecords(names, present, fill)
        /\ \E contact_dict \in {ContactRecord(names, present, fill)} :
            /\ call' = [op |-> "make_contact_text", arg |-> contact_dict]
            /\ result' = make_contact_text(contact_dict)
    /\ pc' = "returned"
    /\ UNCHANGED <<settings, RANDOM_TOKEN, token_at_start, first_mint>>

InitContact == ProcessStart({SettingsUnset})
NextContact == MakeContactText(AllNames, SUBSET FieldKeys, Fills) \/ Return
SpecContact == InitContact /\ [][NextContact]_vars

MECARD == <<"M", "E", "C", "A", "R", "D", ":">>

\* C4 as claimed: for every contact record, the empty record included, the text
\* made by make_contact_text begins with MECARD: and ends with ;;
C4_FramedByMecardAndTwoSemicolons ==
    Returned("make_contact_text") =>
        /\ StartsWith(result.s, MECARD)
        /\ EndsWith(result.s, <<";", ";">>)

\* The record gives make_contact_text a field to emit: a non-empty name or name
\* reading, or any of the nine other keys.
HasFieldToEmit(rec) ==
    \/ \E k \in NameKeys : truthy(rec[k])
    \/ \E k \in FieldKeys : rec[k] # Absent

\* C4 as amended: the text begins with MECARD: and ends with a semicolon; it ends
\* with ;; when the record has a field to emit, and is exactly MECARD:; when it
\* has none (the empty record, or one holding only empty names).
C4_FramedByMecardAndTerminator ==
    Returned("make_contact_text") =>
        /\ StartsWith(result.s, MECARD)
        /\ EndsWith(result.s, <<";">>)
        /\ HasFieldToEmit(call.arg) => EndsWith(result.s, <<";", ";">>)
        /\ ~HasFieldToEmit(call.arg) => result.s = MECARD \o <<";">>

C4_Witness ==
    /\ Returned("make_contact_text")
    /\ \A k \in ContactKeys : call.arg[k] = Absent
    /\ result.s = MECARD \o <<";">>

\* The text of a name pair as the name rule gives it: last,first when both are
\* non-empty, the non-empty one alone when one is, nothing when neither is.
NameRule(first, last) ==
    LET f == IF first = Absent THEN <<>> ELSE EachReservedPrefixed(first.s)
        l == IF last = Absent THEN <<>> ELSE EachReservedPrefixed(last.s)
    IN  IF f # <<>> /\ l # <<>> THEN l \o <<",">> \o f
        ELSE IF f # <<>> THEN f ELSE l

NameSegments(rec) ==
    LET n == NameRule(rec["first_name"], rec["last_name"])
        s == NameRule(rec["first_name_reading"], rec["last_name_reading"])
    IN  (IF n = <<>> THEN <<>> ELSE <<"N", ":">> \o n \o <<";">>)
        \o (IF s = <<>> THEN <<>> ELSE <<"S", "O", "U", "N", "D", ":">> \o s \o <<";">>)

WithoutNames(rec) == [k \in ContactKeys |-> IF k \in NameKeys THEN Absent ELSE rec[k]]

\* C6: make_contact_text emits N:last,first; when first_name and last_name are
\* both present (non-empty), N:<the one present>; with no comma when exactly one
\* is, and no N: field when neither is; SOUND: follows the same rule from the
\* readings.  The names appear escaped, right after MECARD:, and the rest of the
\* text is the text of the record without its names.
C6_NameRule ==
    Returned("make_contact_text") =>
        LET rest == make_contact_text(WithoutNames(call.arg)).s
        IN  result.s = MECARD \o NameSegments(call.arg)
                       \o SubSeq(rest, Len(MECARD) + 1, Len(rest))

C6_Witness ==
    /\ Returned("make_contact_text")
    /\ call.arg["first_name"] = PyStr(<<"J", ",">>)
    /\ call.arg["last_name"] = PyStr(<<"D">>)
    /\ call.arg["first_name_reading"] = PyStr(<<>>)
    /\ call.arg["last_name_reading"] = PyStr(<<"d">>)
    /\ call.arg["tel"] = Absent
    /\ result.s = MECARD \o <<"N", ":", "D", ",", "J", "\\", ",", ";",
                              "S", "O", "U", "N", "D", ":", "d", ";", ";">>

FieldLabel(k) ==
    CASE k = "tel" -> <<"T", "E", "L">>
      [] k = "tel-av" -> <<"T", "E", "L", "-", "A", "V">>
      [] k = "email" -> <<"E", "M", "A", "I", "L">>
      [] k = "memo" -> <<"N", "O", "T", "E">>
      [] k = "birthday" -> <<"B", "D", "A", "Y">>
      [] k = "address" -> <<"A", "D", "R">>
      [] k = "url" -> <<"U", "R", "L">>
      [] k = "nickname" -> <<"N", "I", "C", "K", "N", "A", "M", "E">>
      [] OTHER -> <<"O", "R", "G">>

\* The value a field is written with: the date as YYYYMMDD, address and url as
\* they are, the other fields escaped.
FieldText(rec, k) ==
    IF k = "birthday" THEN strftime_Ymd(rec[k])
    ELSE IF k \in EscapedContactKeys THEN EachReservedPrefixed(rec[k].s)
    ELSE rec[k].s

\* C5: make_contact_text emits each of TEL, TEL-AV, EMAIL, NOTE, BDAY, ADR, URL,
\* NICKNAME, ORG at most once, in that order, after N and SOUND, as KEY:value;,
\* emits a field only when the record has it, and never emits a field with an
\* empty value, also when the record holds the field with an empty string.
C5_FieldsInOrderNeverEmpty ==
    Returned("make_contact_text") =>
        LET rec == call.arg
            mayEmit == {k \in FieldKeys : rec[k] # Absent /\ FieldText(rec, k) # <<>>}
            seg(k) == FieldLabel(k) \o <<":">> \o FieldText(rec, k) \o <<";">>
        IN  \E E \in SUBSET mayEmit :
                result.s = MECARD \o NameSegments(rec)
                           \o Concat([i \in 1..Len(FieldOrder) |->
                                        IF FieldOrder[i] \in E THEN seg(FieldOrder[i])
                                        ELSE <<>>])
                           \o <<";">>

(***************************************************************************)
(* make_qr_code_image: the resolution of size and version                  *)
(***************************************************************************)
\* Characters for which str.isdigit() is true: the decimal digits and, among
\* others, the superscript digits.
IsDigitChars == {DigitChars[k] : k \in 1..10} \cup {"^2"}
\* Characters int() accepts.
DecimalChars == {DigitChars[k] : k \in 1..10}

\* str.isdigit()
isdigit(s) == s # <<>> /\ \A k \in 1..Len(s) : s[k] \in IsDigitChars

DecimalValue(c) == (CHOOSE k \in 1..10 : DigitChars[k] = c) - 1

TextToNat(s) ==
    LET v[k \in 0..Len(s)] == IF k = 0 THEN 0 ELSE (v[k - 1] * 10) + DecimalValue(s[k])
    IN  v[Len(s)]

\* int(x) for an int or for a text that passed isdigit(): the number, or ValueError.
int(x) ==
    IF x.t = "int" THEN [raised |-> "", v |-> x.i]
    ELSE IF \A k \in 1..Len(x.s) : x.s[k] \in DecimalChars
    THEN [raised |-> "", v |-> TextToNat(x.s)]
    ELSE [raised |-> "ValueError", v |-> 0]

SIZE_DICT == [t |-> 6, s |-> 12, m |-> 18, l |-> 30, h |-> 48]

in_SIZE_DICT(s) == Len(s) = 1 /\ s[1] \in DOMAIN SIZE_DICT

\* Lines 86-91: actual_version, or the exception int() raised.
resolve_version(version) ==
    IF version.t = "int" \/ (version.t = "str" /\ isdigit(version.s))
    THEN LET n == int(version)
         IN  IF n.raised # "" THEN n
             ELSE IF n.v < 1 \/ n.v > 40 THEN [raised |-> "", v |-> 0]
             ELSE n
    ELSE [raised |-> "", v |-> 0]

\* Lines 92-99: actual_size, or the exception int() raised.
resolve_size(size) ==
    IF size.t = "int" \/ (size.t = "str" /\ isdigit(size.s))
    THEN LET n == int(size)
         IN  IF n.raised # "" THEN n
             ELSE IF n.v < 1 THEN [raised |-> "", v |-> SIZE_DICT["m"]]
             ELSE n
    ELSE LET size2 == IF ~truthy(size) \/ ~in_SIZE_DICT(lower(size.s))
                      THEN <<"m">> ELSE size.s
         IN  [raised |-> "", v |-> SIZE_DICT[lower(size2)[1]]]

NoImage == [raised |-> "", actual_version |-> 0, actual_size |-> 0,
            version |-> 0, box_size |-> 0, border |-> 0, fit |-> FALSE]

\* What the call hands to qrcode.QRCode (version, box_size, border) and whether it
\* asks for make(fit=True); or the exception that ended it.
make_qr_code_image(size, border, version) ==
    LET av == resolve_version(version)
        as == resolve_size(size)
    IN  IF av.raised # "" THEN [NoImage EXCEPT !.raised = av.raised]
        ELSE IF as.raised # "" THEN [NoImage EXCEPT !.raised = as.raised]
        ELSE [raised |-> "",
              actual_version |-> av.v,
              actual_size |-> as.v,
              version |-> IF av.v # 0 THEN av.v ELSE 1,
              box_size |-> as.v,
              border |-> border,
              fit |-> av.v = 0]

(***************************************************************************)
(* Specification of the parameter resolution                               *)
(***************************************************************************)
MaxParamLen == 2
ParamAlphabet == {"0", "1", "4", "^2", "m", "T", "X"}
ParamTexts == {PyStr(s) : s \in TextsUpTo(ParamAlphabet, MaxParamLen)}
SizeInputs == {PyNone} \cup {PyInt(n) : n \in {-1, 0, 1, 7}} \cup ParamTexts
VersionInputs == {PyNone} \cup {PyInt(n) : n \in {-1, 0, 1, 40, 41}} \cup ParamTexts
DEFAULT_BORDER_SIZE == 4

MakeQrCodeImage ==
    /\ pc = "idle"
    /\ \E size \in SizeInputs, version \in VersionInputs :
        /\ call' = [op |-> "make_qr_code_image", size |-> size, version |-> version]
        /\ result' = make_qr_code_image(size, DEFAULT_BORDER_SIZE, version)
    /\ pc' = "returned"
    /\ UNCHANGED <<settings, RANDOM_TOKEN, token_at_start, first_mint>>

InitImage == ProcessStart({SettingsUnset})
NextImage == MakeQrCodeImage \/ Return
SpecImage == InitImage /\ [][NextImage]_vars

\* The number an integer or a text of decimal digits stands for, -1 for anything
\* else.
NumberGiven(x) ==
    IF x.t = "int" THEN x.i
    ELSE IF x.t = "str" /\ x.s # <<>> /\ \A k \in 1..Len(x.s) : x.s[k] \in DecimalChars
    THEN TextToNat(x.s)
    ELSE -1

LetterSize(x) ==
    IF x.t = "str" /\ Len(x.s) = 1
    THEN CASE x.s[1] \in {"t", "T"} -> 6
           [] x.s[1] \in {"s", "S"} -> 12
           [] x.s[1] \in {"m", "M"} -> 18
           [] x.s[1] \in {"l", "L"} -> 30
           [] x.s[1] \in {"h", "H"} -> 48
           [] OTHER -> 0
    ELSE 0

\* C8: for every size and version given as an integer, a string or unset, the
\* resolution never fails; a size that is neither a positive integer (or digit
\* string) nor one of the letters t/s/m/l/h in either case resolves to 18, a valid
\* letter to its value in {6, 12, 18, 30, 48}; a version that is not an integer in
\* 1..40 resolves to auto-fit as an unset version does, and a version in 1..40 is
\* used unchanged.
C8_InvalidParametersFallBack ==
    Returned("make_qr_code_image") =>
        /\ result.raised = ""
        /\ LetterSize(call.size) # 0 => result.box_size = LetterSize(call.size)
        /\ (LetterSize(call.size) = 0 /\ NumberGiven(call.size) < 1) => result.box_size = 18
        /\ NumberGiven(call.size) >= 1 => result.box_size = NumberGiven(call.size)
        /\ NumberGiven(call.version) \in 1..40 =>
                (result.version = NumberGiven(call.version) /\ ~result.fit)
        /\ NumberGiven(call.version) \notin 1..40 =>
                result = make_qr_code_image(call.size, DEFAULT_BORDER_SIZE, PyNone)

(***************************************************************************)
(* The URL-protection token                                                *)
(***************************************************************************)
RECURSIVE join(_, _)
\* sep.join(parts)
join(sep, parts) ==
    IF parts = <<>> THEN <<>>
    ELSE IF Len(parts) = 1 THEN parts[1]
    ELSE parts[1] \o sep \o join(sep, Tail(parts))

get_qr_url_protection_token(size, border, version, image_format, random_token) ==
    join(<<".">>, <<str(size), str(border), str(version), str(image_format),
                    str(random_token)>>)

\* django.core.signing.Signer(key, salt): sign(value) joins the value and a keyed
\* signature of it; unsign(token) gives the value back when the signature is the
\* one this key and salt give for it, and fails otherwise.
Signer_sign(key, salt, value) ==
    [value |-> value, signature |-> <<key, salt, value>>]

Signer_unsign(key, salt, token) ==
    IF token.signature = <<key, salt, token.value>>
    THEN [ok |-> TRUE, value |-> token.value]
    ELSE [ok |-> FALSE, value |-> <<>>]

get_qr_url_protection_signed_token(size, border, version, image_format) ==
    LET url_protection_options == get_url_protection_options(NoUser)
    IN  Signer_sign(url_protection_options.SIGNING_KEY,
                    url_protection_options.SIGNING_SALT,
                    get_qr_url_protection_token(size, border, version, image_format,
                                                PyStr(RANDOM_TOKEN)))

\* The verification of a token against the parameters of the current request: the
\* signer unsigns it, and the recovered plaintext is the one these parameters and
\* the installation salt give.
check_token(token, size, border, version, image_format) ==
    LET url_protection_options == get_url_protection_options(NoUser)
        unsigned == Signer_unsign(url_protection_options.SIGNING_KEY,
                                  url_protection_options.SIGNING_SALT, token)
    IN  /\ unsigned.ok
        /\ unsigned.value = get_qr_url_protection_token(size, border, version,
                                                        image_format,
                                                        PyStr(RANDOM_TOKEN))

SVG_FORMAT_NAME == <<"s", "v", "g">>
PNG_FORMAT_NAME == <<"p", "n", "g">>

\* qrcode_image.get_supported_image_format: svg and png are the formats
\* recognized; anything else falls back to the default, svg.
get_supported_image_format(image_format) ==
    IF image_format.s \in {SVG_FORMAT_NAME, PNG_FORMAT_NAME} THEN image_format
    ELSE PyStr(SVG_FORMAT_NAME)

\* base64.urlsafe_b64encode, kept as the encoding of its argument.
urlsafe_b64encode(text) == <<"b64(">> \o text \o <<")">>

NoToken == [value |-> <<>>, signature |-> <<"", "", <<>>>>]

make_qr_code_url_token_for_given_format(text, size, border, version, image_format, cache_enabled, include_url_protection_token) ==
    LET encoded_text == urlsafe_b64encode(text)
        image_format2 == get_supported_image_format(image_format)
    IN  [path |-> "qr_code:serve_qr_code_image",
         query |-> [text |-> encoded_text, size |-> str(size), border |-> str(border),
                    version |-> str(version), image_format |-> str(image_format2),
                    cache_enabled |-> str(cache_enabled)],
         has_token |-> include_url_protection_token,
         token |-> IF include_url_protection_token
                   THEN get_qr_url_protection_signed_token(size, border, version,
                                                           image_format)
                   ELSE NoToken]

\* The URL: the path and the query urlencode() writes, every value as its str();
\* the token is a query argument of its own when it is asked for.
make_qr_code_url(text, size, border, version, image_format, cache_enabled, include_url_protection_token) ==
    LET encoded_text == urlsafe_b64encode(text)
        image_format2 == get_supported_image_format(image_format)
    IN  [path |-> "qr_code:serve_qr_code_image",
         query |-> [text |-> encoded_text, size |-> str(size), border |-> str(border),
                    version |-> str(version), image_format |-> str(image_format2),
                    cache_enabled |-> str(cache_enabled)],
         has_token |-> include_url_protection_token,
         token |-> IF include_url_protection_token
                   THEN get_qr_url_protection_signed_token(size, border, version,
                                                           image_format2)
                   ELSE NoToken]

(***************************************************************************)
(* Specification of the process: import, then any sequence of calls        *)
(***************************************************************************)
TokenSettings ==
    {SettingsUnset,
     [SettingsUnset EXCEPT !.kind = "dict", !.SIGNING_KEY = "site_key"],
     [SettingsUnset EXCEPT !.kind = "dict", !.TOKEN_LENGTH = 1]}

TokenSizes == {PyStr(<<"m">>), PyStr(<<"1">>), PyStr(<<"1", ".", "2">>)}
TokenBorders == {PyInt(4), PyStr(<<"4">>), PyStr(<<"2", ".", "4">>)}
TokenVersions == {PyNone, PyInt(1)}
TokenFormats == {PyStr(SVG_FORMAT_NAME), PyStr(PNG_FORMAT_NAME), PyStr(<<"g", "i", "f">>)}
TokenParams ==
    [size : TokenSizes, border : TokenBorders, version : TokenVersions,
     image_format : TokenFormats]

GetQrUrlProtectionSignedToken_with_fresh_salt ==
    /\ pc = "idle"
    /\ \E p \in TokenParams, fresh \in _make_random_token :
        /\ RANDOM_TOKEN' = fresh
        /\ \E token \in {Signer_sign(get_url_protection_options(NoUser).SIGNING_KEY,
                                     get_url_protection_options(NoUser).SIGNING_SALT,
                                     get_qr_url_protection_token(
                                         p.size, p.border, p.version, p.image_format,
                                         PyStr(fresh)))} :
            /\ call' = [op |-> "get_qr_url_protection_signed_token", params |-> p]
            /\ result' = token
            /\ first_mint' =
                IF ~first_mint.minted
                THEN [minted |-> TRUE, params |-> p, token |-> token, again |-> FALSE]
                ELSE IF first_mint.params = p THEN [first_mint EXCEPT !.again = TRUE]
                ELSE first_mint
    /\ pc' = "returned"
    /\ UNCHANGED <<settings, token_at_start>>

GetQrUrlProtectionSignedToken ==
    /\ pc = "idle"
    /\ \E p \in TokenParams :
        \E token \in {get_qr_url_protection_signed_token(
                          p.size, p.border, p.version, p.image_format)} :
            /\ call' = [op |-> "get_qr_url_protection_signed_token", params |-> p]
            /\ result' = token
            /\ first_mint' =
                IF ~first_mint.minted
                THEN [minted |-> TRUE, params |-> p, token |-> token, again |-> FALSE]
                ELSE IF first_mint.params = p THEN [first_mint EXCEPT !.again = TRUE]
                ELSE first_mint
    /\ pc' = "returned"
    /\ UNCHANGED <<settings, RANDOM_TOKEN, token_at_start>>

\* A request presents the token handed out first, or that token's text under
\* a signature made without the site's key, with the parameters it asks for.
CheckToken ==
    /\ pc = "idle"
    /\ first_mint.minted
    /\ \E requested \in TokenParams, genuine \in BOOLEAN :
        \E token \in {IF genuine THEN first_mint.token
                      ELSE [first_mint.token EXCEPT
                                !.signature = <<"other_key", "", first_mint.token.value>>]} :
            /\ call' = [op |-> "check_token", token |-> token, genuine |-> genuine,
                        minted_for |-> first_mint.params, requested |-> requested]
            /\ result' = PyBool(check_token(token, requested.size, requested.border,
                                            requested.version, requested.image_format))
    /\ pc' = "returned"
    /\ UNCHANGED <<settings, RANDOM_TOKEN, token_at_start, first_mint>>

UrlTexts == {<<"h", "i">>}

MakeQrCodeUrl ==
    /\ pc = "idle"
    /\ \E text \in UrlTexts, p \in TokenParams, cache_enabled \in BOOLEAN,
          include_url_protection_token \in BOOLEAN :
        /\ call' = [op |-> "make_qr_code_url", text |-> text, params |-> p,
                    cache_enabled |-> cache_enabled,
                    include_url_protection_token |-> include_url_protection_token]
        /\ result' = make_qr_code_url(text, p.size, p.border, p.version, p.image_format,
                                      PyBool(cache_enabled),
                                      include_url_protection_token)
    /\ pc' = "returned"
    /\ UNCHANGED <<settings, RANDOM_TOKEN, token_at_start, first_mint>>

SomeWifiRecords ==
    [ssid : {Absent, PyStr(<<"a", ";">>)},
     authentication : {Absent, PyStr(<<"W", "P", "A">>)},
     password : {Absent, PyStr(<<"\\">>)},
     hidden : {Absent, PyBool(TRUE), PyBool(FALSE)}]

SomeNames ==
    {n \in AllNames : \A k \in NameKeys : n[k] \in {Absent, PyStr(<<KeyLetter(k)>>)}}

Init == ProcessStart(TokenSettings)

Next ==
    \/ GetUrlProtectionOptions
    \/ GetQrUrlProtectionSignedToken
    \/ CheckToken
    \/ MakeQrCodeUrl
    \/ MakeWifiText(SomeWifiRecords)
    \/ MakeContactText(SomeNames, {{}, {"tel"}, FieldKeys}, {"plain"})
    \/ Return

Spec == Init /\ [][Next]_vars

TokenFields == {"size", "border", "version", "image_format"}

\* C1: a token minted for one parameter tuple verifies against a requested tuple
\* when the two are identical, and fails to verify whenever the requested tuple
\* differs from the minted one in at least one component (each component taken as
\* the text a request carries for it).
C1_TokenBoundToItsTuple ==
    (Returned("check_token") /\ call.genuine) =>
        LET identical == \A f \in TokenFields :
                            str(call.minted_for[f]) = str(call.requested[f])
        IN  /\ identical => result = PyBool(TRUE)
            /\ ~identical => result = PyBool(FALSE)

\* C9: RANDOM_TOKEN keeps the value it was given at import through every
\* operation, so a later mint for the parameters of the first mint returns the
\* same signed token.
C9_SaltWrittenOnce ==
    /\ RANDOM_TOKEN = token_at_start
    /\ (Returned("get_qr_url_protection_signed_token")
            /\ first_mint.params = call.params) => result = first_mint.token

C9_Witness ==
    /\ Returned("get_qr_url_protection_signed_token")
    /\ first_mint.again
    /\ first_mint.params = call.params
    /\ result = first_mint.token
    /\ RANDOM_TOKEN = token_at_start

\* C10: the URL made by make_qr_code_url carries size, border, version and
\* image_format (normalised to a supported format) as plain query arguments; with
\* include_url_protection_token it also carries a token, which is the token minted
\* for those four values as the query gives them, so that it verifies against the
\* URL's own arguments; without it the URL carries the same arguments and no token.
C10_UrlTokenMatchesItsQuery ==
    Returned("make_qr_code_url") =>
        LET q == result.query
            p == call.params
        IN  /\ q.size = str(p.size)
            /\ q.border = str(p.border)
            /\ q.version = str(p.version)
            /\ q.image_format \in {SVG_FORMAT_NAME, PNG_FORMAT_NAME}
            /\ p.image_format.s \in {SVG_FORMAT_NAME, PNG_FORMAT_NAME} =>
                    q.image_format = p.image_format.s
            /\ result.has_token = call.include_url_protection_token
            /\ call.include_url_protection_token =>
                /\ result.token = get_qr_url_protection_signed_token(
                                      PyStr(q.size), PyStr(q.border), PyStr(q.version),
                                      PyStr(q.image_format))
                /\ check_token(result.token, PyStr(q.size), PyStr(q.border),
                               PyStr(q.version), PyStr(q.image_format))
            /\ ~call.include_url_protection_token => result.token = NoToken

C10_Witness ==
    /\ Returned("make_qr_code_url")
    /\ call.include_url_protection_token
    /\ call.params.image_format = PyStr(<<"g", "i", "f">>)
    /\ call.params.border = PyInt(4)
    /\ call.params.version = PyNone
    /\ result.query.image_format = SVG_FORMAT_NAME
    /\ result.query.version = <<"N", "o", "n", "e">>
    /\ check_token(result.token, PyStr(result.query.size), PyStr(result.query.border),
                   PyStr(result.query.version), PyStr(result.query.image_format))

====
